---- MODULE Spec2Model ----
(***************************************************************************)
(* The what-if scoring engine of src/components/dashboard/WhatIfSection.tsx *)
(* (computeFactorScore, computeOverallScore, the adjustedValues memo and    *)
(* the body of runSimulation) and the component state around it.            *)
(*                                                                          *)
(* Numbers.  The source computes on IEEE doubles; the model computes the    *)
(* same expressions exactly, on integers that count a fixed unit:           *)
(*   raw factor values and additive deltas   1/RawScale      (0.1)          *)
(*   the overtime delta                      percent (the slider's unit)    *)
(*   factor scores                           1/ScoreScale    (0.001 point)  *)
(*   weights                                 1/WeightScale   (0.01)         *)
(*   overall scores                          1/OverallScale  (0.00001)      *)
(*   everything Math.round(x * 10) / 10 made 1/10           (one decimal)  *)
(* Every division in the modelled code is exact on these units, except the  *)
(* ones inside Math.round, which MathRound carries out as the rounding.     *)
(* Where the exact argument of Math.round lies exactly half way between two *)
(* integers the model rounds up, as Math.round does on the exact value; the *)
(* double the source computes there can lie a rounding error to either side *)
(* of the tie.  Away from exact ties the model and the doubles agree.       *)
(***************************************************************************)
EXTENDS Integers, Sequences, FiniteSets

VARIABLES
    baseline,        \* useState baseline (line 141): the FactorValues record
    deltas,          \* the five useState delta sliders (lines 150-154), by factor
    baselineScore,   \* useMemo (line 173): computeOverallScore(baseline), unrounded
    adjustedValues,  \* useMemo (lines 164-170)
    result,          \* useState result (line 158): NoResult or a ScenarioResult
    isSimulating,    \* useState isSimulating (line 157)
    activeScenario,  \* useState activeScenario (line 159): NoScenario or a preset's name
    autoRunRef,      \* autoRunRef.current (line 161): NoTimer, or SomeTimer for a timer id
    autoTimers,      \* the pending 150 ms auto-run timers of applyPreset, oldest first
    simTimers,       \* the pending 400 ms timers of runSimulation, oldest first
    mounted,         \* whether the component is mounted
    events,          \* how many user events (clicks, slider moves) there have been
    probe,           \* the last direct call of computeFactorScore and what it returned
    runs             \* log of the timer callbacks run: what each read and computed

inputs == <<baseline, deltas, baselineScore, adjustedValues>>

ui == <<isSimulating, activeScenario, autoRunRef, autoTimers, simTimers, mounted, events>>

vars == <<baseline, deltas, baselineScore, adjustedValues, result, isSimulating,
          activeScenario, autoRunRef, autoTimers, simTimers, mounted, events, probe,
          runs>>

----------------------------------------------------------------------------
\* Units of the fixed-point representation.

RawScale == 10
ScoreScale == 1000
WeightScale == 100
OverallScale == ScoreScale * WeightScale

\* Bounds of the model.
ProbeMax == 1200     \* computeFactorScore is probed on -ProbeMax..ProbeMax tenths
DeltaSteps == 1      \* each delta is tried on -DeltaSteps..DeltaSteps strides
MaxEvents == 3       \* user events (clicks and slider moves) in one behaviour
MaxTimers == 3       \* timers pending at once
DeltaMax == 1100     \* a delta is tried on -DeltaMax..DeltaMax: tenths, or percent of overtime

\* The delays of the two timers, in milliseconds (lines 283 and 247).
AutoRunDelay == 150
SimulationDelay == 400

----------------------------------------------------------------------------
\* The program's tables.

FactorNames == <<"satisfaction", "training", "workHours", "overtime", "sickDays">>

Factors == {FactorNames[i] : i \in 1..Len(FactorNames)}

\* The field of FactorValues that holds a factor's raw value (lines 85-89).
Field(factor) == IF factor = "training" THEN "trainingHours" ELSE factor

\* The weights as percentages that were never normalized: they sum to 1.2.
WeightsUnnormalized ==
    [satisfaction |-> 36, training |-> 30, workHours |-> 22, overtime |-> 18,
     sickDays |-> 14]

WEIGHTS ==
    [satisfaction |-> 30, training |-> 25, workHours |-> 18,
     overtime |-> 15, sickDays |-> 12]

\* The label of each impact entry, in the order of the array literal.
ImpactLabels == <<"Satisfaction", "Training", "Work Hours", "Overtime", "Sick Days">>

\* presetScenarios (lines 101-137): the name and the adjustments of each, the
\* additive ones in tenths, overtime in percent.
presetScenarios ==
    << [name |-> "Training Boost",    adjustments |-> [training |-> 200]],
       [name |-> "Work-Life Balance", adjustments |-> [overtime |-> -50]],
       [name |-> "Engagement Drive",  adjustments |-> [satisfaction |-> 5]],
       [name |-> "Wellness Program",  adjustments |-> [sickDays |-> -20]],
       [name |-> "Full Optimization",
        adjustments |-> [training |-> 100, overtime |-> -25, satisfaction |-> 3]] >>

\* The positions the model moves a slider to: its centre and one of its ends
\* (lines 510-511, 533-534, 555-556, 577-578, 599-600).
SliderStops ==
    [satisfaction |-> {-20, 0},
     training     |-> {0, 500},
     workHours    |-> {0, 150},
     overtime     |-> {0, 100},
     sickDays     |-> {0, 100}]

\* The sliders the component's model moves: one whose delta is added
\* (training) and the one whose delta is a percentage (overtime).
SliderFactors == {"training", "overtime"}

\* The component's initial baseline (lines 141-147), in tenths.
InitialBaseline ==
    [satisfaction |-> 38, trainingHours |-> 350, workHours |-> 430,
     overtime |-> 100, sickDays |-> 50]

ZeroDeltas == [f \in Factors |-> 0]

NoResult == [none |-> TRUE]

NoProbe == [factor |-> "none", value |-> 0, called |-> FALSE, score |-> 0]

NoScenario == "null"

NoTimer == [none |-> TRUE]

\* autoRunRef.current holds the id of the timer applyPreset made last; that
\* timer is the one entry of autoTimers marked current, if it is still pending.
SomeTimer == [none |-> FALSE]

----------------------------------------------------------------------------
\* Arithmetic of the host language.

MathMax(a, b) == IF a >= b THEN a ELSE b

MathMin(a, b) == IF a <= b THEN a ELSE b

MathAbs(a) == IF a < 0 THEN -a ELSE a

\* Math.round(num / den), den > 0: the nearest integer, a tie going up
\* (toward plus infinity), which is floor(x + 1/2).
MathRound(num, den) == (2 * num + den) \div (2 * den)

----------------------------------------------------------------------------
\* computeFactorScore (lines 52-74).  value in 1/RawScale, the score in
\* 1/ScoreScale.

ClampScore(x) == MathMax(0, MathMin(100 * ScoreScale, x))

\* The five transforms with the clamp to [0,100] left out.
computeFactorScoreNoClamp(factor, value) ==
    CASE factor = "satisfaction" ->
            ((value - 1 * RawScale) * 100 * ScoreScale) \div (4 * RawScale)
      [] factor = "training" ->
            (value * 100 * ScoreScale) \div (80 * RawScale)
      [] factor = "workHours" ->
            100 * ScoreScale
              - (MathAbs(value - 40 * RawScale) * 25 * ScoreScale) \div (10 * RawScale)
      [] factor = "overtime" ->
            100 * ScoreScale - (value * 25 * ScoreScale) \div (10 * RawScale)
      [] factor = "sickDays" ->
            100 * ScoreScale - (value * 5 * ScoreScale) \div RawScale
      [] OTHER -> 50 * ScoreScale

\* The training score saturating at 100 hours instead of 80.
computeFactorScoreTraining100(factor, value) ==
    IF factor = "training"
    THEN ClampScore((value * 100 * ScoreScale) \div (100 * RawScale))
    ELSE ClampScore(computeFactorScoreNoClamp(factor, value))

\* Overtime scored as 'more is better': the penalty's sign lost.
computeFactorScoreOvertimeUp(factor, value) ==
    IF factor = "overtime"
    THEN ClampScore((value * 25 * ScoreScale) \div (10 * RawScale))
    ELSE ClampScore(computeFactorScoreNoClamp(factor, value))

\* workHours scored as 'fewer hours are better' (no absolute value).
computeFactorScoreNoAbs(factor, value) ==
    IF factor = "workHours"
    THEN ClampScore(100 * ScoreScale
                      - ((value - 40 * RawScale) * 25 * ScoreScale) \div (10 * RawScale))
    ELSE ClampScore(computeFactorScoreNoClamp(factor, value))

\* computeFactorScore with a default branch that returns 0 instead of 50.
computeFactorScoreDefaultZero(factor, value) ==
    IF factor \in Factors
    THEN ClampScore(computeFactorScoreNoClamp(factor, value))
    ELSE 0

computeFactorScore(factor, value) ==
    CASE factor = "satisfaction" ->
            MathMax(0, MathMin(100 * ScoreScale,
                ((value - 1 * RawScale) * 100 * ScoreScale) \div (4 * RawScale)))
      [] factor = "training" ->
            MathMax(0, MathMin(100 * ScoreScale,
                (value * 100 * ScoreScale) \div (80 * RawScale)))
      [] factor = "workHours" ->
            LET deviation == MathAbs(value - 40 * RawScale)
            IN  MathMax(0, MathMin(100 * ScoreScale,
                    100 * ScoreScale - (deviation * 25 * ScoreScale) \div (10 * RawScale)))
      [] factor = "overtime" ->
            MathMax(0, MathMin(100 * ScoreScale,
                100 * ScoreScale - (value * 25 * ScoreScale) \div (10 * RawScale)))
      [] factor = "sickDays" ->
            MathMax(0, MathMin(100 * ScoreScale,
                100 * ScoreScale - (value * 5 * ScoreScale) \div RawScale))
      [] OTHER -> 50 * ScoreScale

----------------------------------------------------------------------------
\* computeOverallScore (lines 77-99): the score in 1/OverallScale.

\* The training score taken from the wrong field.
computeOverallScoreWrongField(values) ==
    LET scores ==
          [satisfaction |-> computeFactorScore("satisfaction", values.satisfaction),
           training     |-> computeFactorScore("training", values.workHours),
           workHours    |-> computeFactorScore("workHours", values.workHours),
           overtime     |-> computeFactorScore("overtime", values.overtime),
           sickDays     |-> computeFactorScore("sickDays", values.sickDays)]
    IN  scores.satisfaction * WEIGHTS.satisfaction
          + scores.training * WEIGHTS.training
          + scores.workHours * WEIGHTS.workHours
          + scores.overtime * WEIGHTS.overtime
          + scores.sickDays * WEIGHTS.sickDays

\* The factor scores added up without their weights' normalisation: the
\* workHours weight counted twice.
computeOverallScoreHeavy(values) ==
    LET scores ==
          [satisfaction |-> computeFactorScore("satisfaction", values.satisfaction),
           training     |-> computeFactorScore("training", values.trainingHours),
           workHours    |-> computeFactorScore("workHours", values.workHours),
           overtime     |-> computeFactorScore("overtime", values.overtime),
           sickDays     |-> computeFactorScore("sickDays", values.sickDays)]
    IN  scores.satisfaction * WEIGHTS.satisfaction
          + scores.training * WEIGHTS.training
          + scores.workHours * WEIGHTS.workHours * 2
          + scores.overtime * WEIGHTS.overtime
          + scores.sickDays * WEIGHTS.sickDays

\* The weighted sum with the training term left out.
computeOverallScoreNoTraining(values) ==
    LET scores ==
          [satisfaction |-> computeFactorScore("satisfaction", values.satisfaction),
           workHours    |-> computeFactorScore("workHours", values.workHours),
           overtime     |-> computeFactorScore("overtime", values.overtime),
           sickDays     |-> computeFactorScore("sickDays", values.sickDays)]
    IN  scores.satisfaction * WEIGHTS.satisfaction
          + scores.workHours * WEIGHTS.workHours
          + scores.overtime * WEIGHTS.overtime
          + scores.sickDays * WEIGHTS.sickDays

computeOverallScore(values) ==
    LET scores ==
          [satisfaction |-> computeFactorScore("satisfaction", values.satisfaction),
           training     |-> computeFactorScore("training", values.trainingHours),
           workHours    |-> computeFactorScore("workHours", values.workHours),
           overtime     |-> computeFactorScore("overtime", values.overtime),
           sickDays     |-> computeFactorScore("sickDays", values.sickDays)]
    IN  scores.satisfaction * WEIGHTS.satisfaction
          + scores.training * WEIGHTS.training
          + scores.workHours * WEIGHTS.workHours
          + scores.overtime * WEIGHTS.overtime
          + scores.sickDays * WEIGHTS.sickDays

----------------------------------------------------------------------------
\* The adjustedValues memo (lines 164-170).  The four additive deltas are in
\* 1/RawScale; the overtime delta is a percentage of the baseline's overtime.
\* (baseline.overtime * overtimeDelta / 100 is exact on tenths whenever the
\* baseline's overtime is a whole multiple of ten hours or the delta a whole
\* multiple of 100 / overtime; the inputs of this model keep to that.)

\* The overtime delta added as hours, like the other four.
AdjustedValuesAdditive(base, d) ==
    [satisfaction  |-> MathMax(1 * RawScale, MathMin(5 * RawScale, base.satisfaction + d.satisfaction)),
     trainingHours |-> MathMax(0, MathMin(100 * RawScale, base.trainingHours + d.training)),
     workHours     |-> MathMax(20 * RawScale, MathMin(60 * RawScale, base.workHours + d.workHours)),
     overtime      |-> MathMax(0, MathMin(40 * RawScale, base.overtime + d.overtime * RawScale)),
     sickDays      |-> MathMax(0, MathMin(20 * RawScale, base.sickDays + d.sickDays))]

\* The adjusted values with the upper clamps only, the Math.max floors left
\* out.
AdjustedValuesUpperOnly(base, d) ==
    [satisfaction  |-> MathMin(5 * RawScale, base.satisfaction + d.satisfaction),
     trainingHours |-> MathMin(100 * RawScale, base.trainingHours + d.training),
     workHours     |-> MathMin(60 * RawScale, base.workHours + d.workHours),
     overtime      |-> MathMin(40 * RawScale,
                          base.overtime + (base.overtime * d.overtime) \div 100),
     sickDays      |-> MathMin(20 * RawScale, base.sickDays + d.sickDays)]

AdjustedValues(base, d) ==
    [satisfaction  |-> MathMax(1 * RawScale, MathMin(5 * RawScale, base.satisfaction + d.satisfaction)),
     trainingHours |-> MathMax(0, MathMin(100 * RawScale, base.trainingHours + d.training)),
     workHours     |-> MathMax(20 * RawScale, MathMin(60 * RawScale, base.workHours + d.workHours)),
     overtime      |-> MathMax(0, MathMin(40 * RawScale,
                          base.overtime + (base.overtime * d.overtime) \div 100)),
     sickDays      |-> MathMax(0, MathMin(20 * RawScale, base.sickDays + d.sickDays))]

----------------------------------------------------------------------------
\* The body of runSimulation's timer callback (lines 179-244), on the values
\* its closure holds: adjustedValues, baseline and the baselineScore memo.

\* The direction without its dead zone: any adjusted score at or above the
\* baseline's counts as positive.
ImpactEntryNoDeadZone(label, factor, adjustedFactorScore, baselineFactorScore) ==
    [factor    |-> label,
     impact    |-> MathRound((adjustedFactorScore - baselineFactorScore) * WEIGHTS[factor] * 10,
                             OverallScale),
     direction |-> IF adjustedFactorScore >= baselineFactorScore
                   THEN "positive"
                   ELSE "negative"]

\* The impact as the bare difference of the two scores, the weight left out.
ImpactEntryUnweighted(label, factor, adjustedFactorScore, baselineFactorScore) ==
    [factor    |-> label,
     impact    |-> MathRound((adjustedFactorScore - baselineFactorScore) * 10, ScoreScale),
     direction |-> IF adjustedFactorScore > baselineFactorScore + (5 * ScoreScale) \div 10
                   THEN "positive"
                   ELSE IF adjustedFactorScore < baselineFactorScore - (5 * ScoreScale) \div 10
                        THEN "negative"
                        ELSE "neutral"]

\* The dead zone closed on the wrong side: a difference of exactly 0.5 point
\* already counts as a direction.
ImpactEntryInclusive(label, factor, adjustedFactorScore, baselineFactorScore) ==
    [factor    |-> label,
     impact    |-> MathRound((adjustedFactorScore - baselineFactorScore) * WEIGHTS[factor] * 10,
                             OverallScale),
     direction |-> IF adjustedFactorScore >= baselineFactorScore + (5 * ScoreScale) \div 10
                   THEN "positive"
                   ELSE IF adjustedFactorScore <= baselineFactorScore - (5 * ScoreScale) \div 10
                        THEN "negative"
                        ELSE "neutral"]

\* The dead zone wider on the negative side: a score has to fall by more
\* than a whole point to count as negative.
ImpactEntryLopsided(label, factor, adjustedFactorScore, baselineFactorScore) ==
    [factor    |-> label,
     impact    |-> MathRound((adjustedFactorScore - baselineFactorScore) * WEIGHTS[factor] * 10,
                             OverallScale),
     direction |-> IF adjustedFactorScore > baselineFactorScore + (5 * ScoreScale) \div 10
                   THEN "positive"
                   ELSE IF adjustedFactorScore < baselineFactorScore - ScoreScale
                        THEN "negative"
                        ELSE "neutral"]

\* One entry of impactBreakdown (lines 200-229).  The two scores are in
\* 1/ScoreScale, the impact in tenths; 0.5 point is ScoreScale / 2.
ImpactEntry(label, factor, adjustedFactorScore, baselineFactorScore) ==
    [factor    |-> label,
     impact    |-> MathRound((adjustedFactorScore - baselineFactorScore) * WEIGHTS[factor] * 10,
                             OverallScale),
     direction |-> IF adjustedFactorScore > baselineFactorScore + (5 * ScoreScale) \div 10
                   THEN "positive"
                   ELSE IF adjustedFactorScore < baselineFactorScore - (5 * ScoreScale) \div 10
                        THEN "negative"
                        ELSE "neutral"]

\* The category bands with the boundaries on the wrong side (> for >=).
CategoryExclusive(roundedNewScore) ==
    IF roundedNewScore > 75 * 10 THEN "High"
    ELSE IF roundedNewScore > 50 * 10 THEN "Medium" ELSE "Low"

\* The category of a rounded score, in tenths (line 242).
Category(roundedNewScore) ==
    IF roundedNewScore >= 75 * 10 THEN "High"
    ELSE IF roundedNewScore >= 50 * 10 THEN "Medium" ELSE "Low"

\* delta rounded once, from the unrounded scores.
DeltaUnrounded(newScore, baseScore, roundedNewScore, roundedBaselineScore) ==
    MathRound((newScore - baseScore) * 10, OverallScale)

\* delta (line 234): (roundedNewScore - roundedBaselineScore) is in tenths.
Delta(newScore, baseScore, roundedNewScore, roundedBaselineScore) ==
    MathRound((roundedNewScore - roundedBaselineScore) * 10, 10)

\* percentChange as a fraction rounded to one decimal, the factor 100 lost.
PercentChangeFraction(delta, roundedBaselineScore) ==
    IF roundedBaselineScore > 0 THEN MathRound(delta * 10, roundedBaselineScore) ELSE 0

\* percentChange with the division guarded by a floor of 0.1 on the divisor
\* instead of by the test roundedBaselineScore > 0.
PercentChangeFloorDivisor(delta, roundedBaselineScore) ==
    MathRound(delta * 1000, MathMax(roundedBaselineScore, 1))

\* percentChange (line 235), in tenths of a percent: delta and the rounded
\* baseline are both in tenths, so their quotient has no unit.
PercentChange(delta, roundedBaselineScore) ==
    IF roundedBaselineScore > 0 THEN MathRound(delta * 1000, roundedBaselineScore) ELSE 0

\* The comparison made against the result on display when there is one,
\* instead of against the baseline: its newScore stands in for the rounded
\* baselineScore.
SimulationResultAgainstDisplayed(adjusted, base, baseScore) ==
    LET newScore == computeOverallScore(adjusted)
        baselineFactorScores ==
            [f \in Factors |-> computeFactorScore(f, base[Field(f)])]
        adjustedFactorScores ==
            [f \in Factors |-> computeFactorScore(f, adjusted[Field(f)])]
        impactBreakdown ==
            [i \in 1..Len(FactorNames) |->
                ImpactEntry(ImpactLabels[i], FactorNames[i],
                            adjustedFactorScores[FactorNames[i]],
                            baselineFactorScores[FactorNames[i]])]
        roundedBaselineScore ==
            IF result # NoResult THEN result.newScore
            ELSE MathRound(baseScore * 10, OverallScale)
        roundedNewScore == MathRound(newScore * 10, OverallScale)
        delta == Delta(newScore, baseScore, roundedNewScore, roundedBaselineScore)
        percentChange == PercentChange(delta, roundedBaselineScore)
    IN  [baselineScore   |-> roundedBaselineScore,
         newScore        |-> roundedNewScore,
         delta           |-> delta,
         percentChange   |-> percentChange,
         category        |-> Category(roundedNewScore),
         impactBreakdown |-> impactBreakdown]

SimulationResult(adjusted, base, baseScore) ==
    LET newScore == computeOverallScore(adjusted)
        baselineFactorScores ==
            [f \in Factors |-> computeFactorScore(f, base[Field(f)])]
        adjustedFactorScores ==
            [f \in Factors |-> computeFactorScore(f, adjusted[Field(f)])]
        impactBreakdown ==
            [i \in 1..Len(FactorNames) |->
                ImpactEntry(ImpactLabels[i], FactorNames[i],
                            adjustedFactorScores[FactorNames[i]],
                            baselineFactorScores[FactorNames[i]])]
        roundedBaselineScore == MathRound(baseScore * 10, OverallScale)
        roundedNewScore == MathRound(newScore * 10, OverallScale)
        delta == Delta(newScore, baseScore, roundedNewScore, roundedBaselineScore)
        percentChange == PercentChange(delta, roundedBaselineScore)
    IN  [baselineScore   |-> roundedBaselineScore,
         newScore        |-> roundedNewScore,
         delta           |-> delta,
         percentChange   |-> percentChange,
         category        |-> Category(roundedNewScore),
         impactBreakdown |-> impactBreakdown]

----------------------------------------------------------------------------
\* The state after construction (lines 141-161) and a render's memos.

Render(base, d) ==
    /\ baselineScore' = computeOverallScore(base)
    /\ adjustedValues' = AdjustedValues(base, d)

InitComponent(base) ==
    /\ baseline = base
    /\ deltas = ZeroDeltas
    /\ baselineScore = computeOverallScore(base)
    /\ adjustedValues = AdjustedValues(base, ZeroDeltas)
    /\ result = NoResult
    /\ isSimulating = FALSE
    /\ activeScenario = NoScenario
    /\ autoRunRef = NoTimer
    /\ autoTimers = <<>>
    /\ simTimers = <<>>
    /\ mounted = TRUE
    /\ events = 0
    /\ runs = <<>>

Init ==
    /\ InitComponent(InitialBaseline)
    /\ probe = NoProbe

----------------------------------------------------------------------------
\* Spec: the component.  baseline never changes (setBaseline is never
\* called).  A render's runSimulation closes over that render's
\* adjustedValues, baseline and baselineScore (useCallback, line 248), and a
\* render's applyPreset over that render's runSimulation.  Time passes in
\* ticks of TickMs, the largest step in which both delays are whole; a timer
\* that is due fires before time passes again, and user events happen at any
\* time.  runs logs each run of the timer callback: it is read by properties
\* only, never by an action.  So are four fields of a timer: madeAt (the
\* number of the user event that led to it), auto (whether an auto-run
\* started the simulation), overlapped (Overlaps when the simulation
\* started) and beforeReset (whether resetAll was called while it was
\* pending).

RECURSIVE GCD(_, _)
GCD(a, b) == IF b = 0 THEN a ELSE GCD(b, a % b)

TickMs == GCD(SimulationDelay, AutoRunDelay)

\* What the runSimulation of the current render closes over.
Closure ==
    [adjustedValues |-> adjustedValues, baseline |-> baseline,
     baselineScore |-> baselineScore]

\* One entry of the log: the values a timer callback read from its closure
\* and the result it computed (newResult, lines 236-244).
Run(closure, newResult) ==
    [baseline |-> closure.baseline, adjustedValues |-> closure.adjustedValues,
     result |-> newResult]

PendingTimers == Len(simTimers) + Len(autoTimers)

\* Whether a simulation started now would start while an earlier one, made
\* from other adjusted values, still has its result to show.
Overlaps ==
    \E i \in 1..Len(simTimers) : simTimers[i].closure.adjustedValues # adjustedValues

\* Every timer with its beforeReset mark set (resetAll itself clears no
\* timer, lines 295-303).
MarkBeforeReset(timers) ==
    [i \in 1..Len(timers) |-> [timers[i] EXCEPT !.beforeReset = TRUE]]

\* if (autoRunRef.current) clearTimeout(autoRunRef.current) (lines 277-279
\* and 289-291): the pending timers that are left.
ClearAutoRun ==
    IF autoRunRef # NoTimer
    THEN SelectSeq(autoTimers, LAMBDA t : ~t.current)
    ELSE autoTimers

\* setTimeout(() => runSimulation(), 150) (lines 280-283) of the current
\* render, its id stored in autoRunRef.current, on the timers given.
SetAutoRun(timers) ==
    Append([i \in 1..Len(timers) |-> [timers[i] EXCEPT !.current = FALSE]],
           [left |-> AutoRunDelay, closure |-> Closure, current |-> TRUE,
            madeAt |-> events', beforeReset |-> FALSE])

\* A slider's onValueChange (lines 509, 532, 554, 576, 598) and the render
\* that follows.
SetDelta(factor, v) ==
    /\ mounted
    /\ events < MaxEvents
    /\ events' = events + 1
    /\ deltas' = [deltas EXCEPT ![factor] = v]
    /\ Render(baseline, deltas')
    /\ UNCHANGED <<baseline, result, isSimulating, activeScenario, autoRunRef, autoTimers,
                   simTimers, mounted, probe, runs>>

\* The Run Simulation button (lines 606-611, disabled while isSimulating):
\* runSimulation (lines 175-178) of the current render.
RunSimulationClick ==
    /\ mounted
    /\ ~isSimulating
    /\ events < MaxEvents
    /\ PendingTimers < MaxTimers
    /\ events' = events + 1
    /\ isSimulating' = TRUE
    /\ simTimers' = Append(simTimers,
                           [left |-> SimulationDelay, closure |-> Closure,
                            madeAt |-> events', auto |-> FALSE, overlapped |-> Overlaps,
                            beforeReset |-> FALSE])
    /\ UNCHANGED <<inputs, result, activeScenario, autoRunRef, autoTimers, mounted, probe,
                   runs>>

\* The 400 ms timer of runSimulation fires (lines 178-247): the oldest one,
\* all having the same delay.  React drops the state updates of a component
\* that is no longer mounted.
SimulationTimerFires ==
    /\ simTimers # <<>>
    /\ Head(simTimers).left = 0
    /\ simTimers' = Tail(simTimers)
    /\ LET newResult == SimulationResult(Head(simTimers).closure.adjustedValues,
                                         Head(simTimers).closure.baseline,
                                         Head(simTimers).closure.baselineScore)
       IN  /\ runs' = Append(runs, Run(Head(simTimers).closure, newResult))
           /\ IF mounted
              THEN /\ result' = newResult
                   /\ isSimulating' = FALSE
              ELSE UNCHANGED <<result, isSimulating>>
    /\ UNCHANGED <<inputs, activeScenario, autoRunRef, autoTimers, mounted, events, probe>>

\* applyPreset without lines 277-279: the timer of an earlier click is left
\* pending.
ApplyPresetNoClear(scenario) ==
    /\ mounted
    /\ events < MaxEvents
    /\ PendingTimers < MaxTimers
    /\ events' = events + 1
    /\ activeScenario' = scenario.name
    /\ deltas' = [f \in Factors |->
                    IF f \in DOMAIN scenario.adjustments
                    THEN scenario.adjustments[f] ELSE 0]
    /\ autoRunRef' = SomeTimer
    /\ autoTimers' = SetAutoRun(autoTimers)
    /\ Render(baseline, deltas')
    /\ UNCHANGED <<baseline, result, isSimulating, simTimers, mounted, probe, runs>>

\* applyPreset without lines 253-258: the preset's adjustments are added to
\* the deltas already set.
ApplyPresetAccumulate(scenario) ==
    /\ mounted
    /\ events < MaxEvents
    /\ PendingTimers < MaxTimers
    /\ events' = events + 1
    /\ activeScenario' = scenario.name
    /\ deltas' = [f \in Factors |->
                    IF f \in DOMAIN scenario.adjustments
                    THEN deltas[f] + scenario.adjustments[f] ELSE deltas[f]]
    /\ autoRunRef' = SomeTimer
    /\ autoTimers' = SetAutoRun(ClearAutoRun)
    /\ Render(baseline, deltas')
    /\ UNCHANGED <<baseline, result, isSimulating, simTimers, mounted, probe, runs>>

\* applyPreset (lines 250-284) of the current render and the render that
\* follows: the deltas are replaced, a pending auto-run timer is cleared, and
\* the new timer's callback calls the runSimulation of the render in which
\* the preset was clicked.
ApplyPreset(scenario) ==
    /\ mounted
    /\ events < MaxEvents
    /\ PendingTimers < MaxTimers
    /\ events' = events + 1
    /\ activeScenario' = scenario.name
    /\ deltas' = [f \in Factors |->
                    IF f \in DOMAIN scenario.adjustments
                    THEN scenario.adjustments[f] ELSE 0]
    /\ autoRunRef' = SomeTimer
    /\ autoTimers' = SetAutoRun(ClearAutoRun)
    /\ Render(baseline, deltas')
    /\ UNCHANGED <<baseline, result, isSimulating, simTimers, mounted, probe, runs>>

\* The 150 ms auto-run timer fires (lines 281-283): runSimulation of the
\* render that made it (lines 175-178).  autoRunRef.current keeps the id of
\* the spent timer.  Timers of equal delay fire in the order they were made.
AutoRunFires ==
    /\ autoTimers # <<>>
    /\ Head(autoTimers).left = 0
    /\ autoTimers' = Tail(autoTimers)
    /\ isSimulating' = IF mounted THEN TRUE ELSE isSimulating
    /\ simTimers' = Append(simTimers,
                           [left |-> SimulationDelay, closure |-> Head(autoTimers).closure,
                            madeAt |-> Head(autoTimers).madeAt, auto |-> TRUE,
                            overlapped |-> Overlaps,
                            beforeReset |-> Head(autoTimers).beforeReset])
    /\ UNCHANGED <<inputs, result, activeScenario, autoRunRef, mounted, events, probe, runs>>

\* resetAll (lines 295-303) and the render that follows.
ResetAll ==
    /\ mounted
    /\ events < MaxEvents
    /\ events' = events + 1
    /\ activeScenario' = NoScenario
    /\ deltas' = ZeroDeltas
    /\ result' = NoResult
    /\ simTimers' = MarkBeforeReset(simTimers)
    /\ autoTimers' = MarkBeforeReset(autoTimers)
    /\ Render(baseline, deltas')
    /\ UNCHANGED <<baseline, isSimulating, autoRunRef, mounted, probe, runs>>

\* The component unmounts with no cleanup: the auto-run timer stays pending.
UnmountNoClear ==
    /\ mounted
    /\ mounted' = FALSE
    /\ UNCHANGED <<inputs, result, isSimulating, activeScenario, autoRunRef, autoTimers,
                   simTimers, events, probe, runs>>

\* The component unmounts: the effect's cleanup (lines 287-293) clears the
\* auto-run timer; nothing clears the 400 ms timers.
Unmount ==
    /\ mounted
    /\ mounted' = FALSE
    /\ autoTimers' = ClearAutoRun
    /\ UNCHANGED <<inputs, result, isSimulating, activeScenario, autoRunRef, simTimers, events,
                   probe, runs>>

\* TickMs pass: no pending timer is due, and each comes TickMs closer.
Tick ==
    /\ PendingTimers > 0
    /\ \A i \in 1..Len(simTimers) : simTimers[i].left > 0
    /\ \A i \in 1..Len(autoTimers) : autoTimers[i].left > 0
    /\ simTimers' = [i \in 1..Len(simTimers) |->
                        [simTimers[i] EXCEPT !.left = @ - TickMs]]
    /\ autoTimers' = [i \in 1..Len(autoTimers) |->
                         [autoTimers[i] EXCEPT !.left = @ - TickMs]]
    /\ UNCHANGED <<inputs, result, isSimulating, activeScenario, autoRunRef, mounted, events,
                   probe, runs>>

Next ==
    \/ \E f \in SliderFactors : \E v \in SliderStops[f] : SetDelta(f, v)
    \/ RunSimulationClick
    \/ SimulationTimerFires
    \/ \E i \in 1..Len(presetScenarios) : ApplyPreset(presetScenarios[i])
    \/ AutoRunFires
    \/ ResetAll
    \/ Unmount
    \/ Tick

Spec == Init /\ [][Next]_vars

----------------------------------------------------------------------------
\* NormSpec: computeFactorScore on its own.  Init draws the call's arguments,
\* the five factor names and two names the switch does not know (one of them
\* the field name of the training factor), each with every raw value of
\* -ProbeMax..ProbeMax tenths; Normalize makes the call.

ProbeFactors == Factors \cup {"unknown", "trainingHours"}

ProbeValues == (0 - ProbeMax)..ProbeMax

NormInit ==
    /\ InitComponent(InitialBaseline)
    /\ \E f \in ProbeFactors, v \in ProbeValues :
          probe = [factor |-> f, value |-> v, called |-> FALSE, score |-> 0]

Normalize ==
    /\ probe.factor # NoProbe.factor
    /\ ~probe.called
    /\ probe' = [probe EXCEPT !.called = TRUE,
                              !.score = computeFactorScore(probe.factor, probe.value)]
    /\ UNCHANGED <<inputs, result, ui, runs>>

NormNext == Normalize

NormSpec == NormInit /\ [][NormNext]_vars

----------------------------------------------------------------------------
\* ScoreSpec: computeOverallScore on its own, through the baselineScore memo.
\* It starts from the component's baseline; SetBaseline is setBaseline
\* (line 141) with one field changed, followed by the render that recomputes
\* the two memos.  The values tried run from below each domain to above it.

Fields == {Field(f) : f \in Factors}

ScoreInputs ==
    [satisfaction  |-> {0, 10, 24, 38, 50, 65},
     trainingHours |-> {-100, 0, 350, 800, 1000, 1200},
     workHours     |-> {-100, 200, 400, 430, 600, 900},
     overtime      |-> {-50, 0, 100, 400, 450},
     sickDays      |-> {-20, 0, 50, 200, 250}]

SetBaseline(field, v) ==
    /\ baseline' = [baseline EXCEPT ![field] = v]
    /\ UNCHANGED deltas
    /\ Render(baseline', deltas')
    /\ UNCHANGED <<result, ui, probe, runs>>

ScoreNext == \E field \in Fields : \E v \in ScoreInputs[field] : SetBaseline(field, v)

ScoreSpec == Init /\ [][ScoreNext]_vars

\* The domains of the five fields of FactorValues, in tenths.
InDomain(values) ==
    /\ 1 * RawScale <= values.satisfaction /\ values.satisfaction <= 5 * RawScale
    /\ 0 <= values.trainingHours /\ values.trainingHours <= 100 * RawScale
    /\ 20 * RawScale <= values.workHours /\ values.workHours <= 60 * RawScale
    /\ 0 <= values.overtime /\ values.overtime <= 40 * RawScale
    /\ 0 <= values.sickDays /\ values.sickDays <= 20 * RawScale

----------------------------------------------------------------------------
\* AdjustSpec: the adjustedValues memo (lines 164-170) after one delta is set
\* to any value, far beyond its slider's range included.  The baseline is the
\* component's, or the lower or the upper end of every domain.

DomainMin ==
    [satisfaction |-> 1 * RawScale, trainingHours |-> 0, workHours |-> 20 * RawScale,
     overtime |-> 0, sickDays |-> 0]

DomainMax ==
    [satisfaction |-> 5 * RawScale, trainingHours |-> 100 * RawScale,
     workHours |-> 60 * RawScale, overtime |-> 40 * RawScale, sickDays |-> 20 * RawScale]

AdjustBaselines == {InitialBaseline, DomainMin, DomainMax}

AdjustInit ==
    /\ \E base \in AdjustBaselines : InitComponent(base)
    /\ probe = NoProbe

AdjustNext ==
    /\ events = 0
    /\ \E factor \in Factors : \E v \in (0 - DeltaMax)..DeltaMax : SetDelta(factor, v)

AdjustSpec == AdjustInit /\ [][AdjustNext]_vars

----------------------------------------------------------------------------
\* Claims about the adjusted values, under AdjustSpec.

\* x held to [lo, hi].
SpecClamp(x, lo, hi) == IF x < lo THEN lo ELSE IF x > hi THEN hi ELSE x

\* C14: the adjusted satisfaction, trainingHours, workHours and sickDays are
\* baseline + delta held to [1,5], [0,100], [20,60] and [0,20], so for every
\* delta, however large, each lies inside its domain.
C14_AdditiveClamp ==
    /\ adjustedValues.satisfaction
          = SpecClamp(baseline.satisfaction + deltas.satisfaction, 10, 50)
    /\ adjustedValues.trainingHours
          = SpecClamp(baseline.trainingHours + deltas.training, 0, 1000)
    /\ adjustedValues.workHours
          = SpecClamp(baseline.workHours + deltas.workHours, 200, 600)
    /\ adjustedValues.sickDays
          = SpecClamp(baseline.sickDays + deltas.sickDays, 0, 200)
    /\ adjustedValues.satisfaction \in 10..50
    /\ adjustedValues.trainingHours \in 0..1000
    /\ adjustedValues.workHours \in 200..600
    /\ adjustedValues.sickDays \in 0..200

\* 110 training hours more on the component's 35 would be 145: the adjusted
\* value is 100.
C14_Witness ==
    /\ baseline = InitialBaseline
    /\ deltas = [ZeroDeltas EXCEPT !["training"] = 1100]
    /\ baseline.trainingHours + deltas.training = 1450
    /\ adjustedValues.trainingHours = 1000

\* C15: the overtime delta is a percentage of the baseline: adjusted overtime
\* is baseline + baseline * delta / 100 held to [0,40], so +1000 percent on
\* 10 hours gives 40, not 110.
C15_OvertimePercent ==
    /\ adjustedValues.overtime \in 0..400
    /\ 100 * adjustedValues.overtime
          = SpecClamp(100 * baseline.overtime + baseline.overtime * deltas.overtime,
                      0, 100 * 400)
    /\ (baseline.overtime = 100 /\ deltas.overtime = 1000)
          => adjustedValues.overtime = 400

C15_Witness ==
    /\ baseline.overtime = 100
    /\ deltas = [ZeroDeltas EXCEPT !["overtime"] = 1000]
    /\ baseline.overtime + (baseline.overtime * deltas.overtime) \div 100 = 1100
    /\ adjustedValues.overtime = 400

----------------------------------------------------------------------------
\* Claims about computeOverallScore, under ScoreSpec.

\* C2: for every FactorValues record whose five fields lie in their domains,
\* computeOverallScore returns a value in [0,100].
C2_OverallInRange ==
    InDomain(baseline)
        => (0 <= baselineScore /\ baselineScore <= 100 * OverallScale)

\* The best in-domain record (5, 100, 40, 0, 0), which scores exactly 100.
C2_Witness ==
    /\ baseline = [satisfaction |-> 50, trainingHours |-> 1000, workHours |-> 400,
                   overtime |-> 0, sickDays |-> 0]
    /\ InDomain(baseline)
    /\ baselineScore = 100 * OverallScale

\* C6: with the other factors held fixed, raising satisfaction or
\* trainingHours never lowers computeOverallScore, and raising overtime or
\* sickDays never raises it, in or out of the domains.
C6_Monotone ==
    [][ /\ \A field \in {"satisfaction", "trainingHours"} :
              (baseline'[field] >= baseline[field]
                 /\ \A g \in Fields \ {field} : baseline'[g] = baseline[g])
                  => baselineScore' >= baselineScore
        /\ \A field \in {"overtime", "sickDays"} :
              (baseline'[field] >= baseline[field]
                 /\ \A g \in Fields \ {field} : baseline'[g] = baseline[g])
                  => baselineScore' <= baselineScore ]_vars

\* A record reached by raising satisfaction (from 3.8 to 5, the others at the
\* component's baseline), whose score is above the initial one.
C6_Witness ==
    /\ baseline = [InitialBaseline EXCEPT !.satisfaction = 50]
    /\ baselineScore > computeOverallScore(InitialBaseline)

----------------------------------------------------------------------------
\* EngineSpec: one comparison of a baseline with its adjusted values.  Init
\* draws the baseline and the five deltas and renders the memos; Simulate
\* runs the body of runSimulation's timer callback on what that render holds.
\* Each field of a baseline is the component's value or the end of its domain
\* that scores lowest; workHours is also tried at 80, outside its domain,
\* where its score is 0, and trainingHours at 0.1, where its score is 0.125;
\* each delta is a whole number of strides.

EngineBaselineInputs ==
    [satisfaction  |-> {10, 38},
     trainingHours |-> {0, 1, 350},
     workHours     |-> {430, 600, 800},
     overtime      |-> {0, 100, 400},
     sickDays      |-> {50, 200}]

EngineBaselines ==
    [satisfaction  : EngineBaselineInputs.satisfaction,
     trainingHours : EngineBaselineInputs.trainingHours,
     workHours     : EngineBaselineInputs.workHours,
     overtime      : EngineBaselineInputs.overtime,
     sickDays      : EngineBaselineInputs.sickDays]

\* 0.5 point of satisfaction, 20 training hours, 3 work hours, 50 percent of
\* overtime, 2 sick days.
DeltaStride ==
    [satisfaction |-> 5, training |-> 200, workHours |-> 30,
     overtime |-> 50, sickDays |-> 20]

\* A tenth of a sick day either way moves the sick-days score by exactly
\* 0.5 point, the edge of the dead zone of an impact's direction.
DeadZoneSickDays == {-1, 1}

EngineDeltas ==
    [satisfaction : {DeltaStride.satisfaction * k : k \in (0 - DeltaSteps)..DeltaSteps},
     training     : {DeltaStride.training * k : k \in (0 - DeltaSteps)..DeltaSteps},
     workHours    : {DeltaStride.workHours * k : k \in (0 - DeltaSteps)..DeltaSteps},
     overtime     : {DeltaStride.overtime * k : k \in (0 - DeltaSteps)..DeltaSteps},
     sickDays     : {DeltaStride.sickDays * k : k \in (0 - DeltaSteps)..DeltaSteps}
                        \cup DeadZoneSickDays]

EngineInit ==
    /\ baseline \in EngineBaselines
    /\ deltas \in EngineDeltas
    /\ baselineScore = computeOverallScore(baseline)
    /\ adjustedValues = AdjustedValues(baseline, deltas)
    /\ result = NoResult
    /\ isSimulating = FALSE
    /\ activeScenario = NoScenario
    /\ autoRunRef = NoTimer
    /\ autoTimers = <<>>
    /\ simTimers = <<>>
    /\ mounted = TRUE
    /\ events = 0
    /\ probe = NoProbe
    /\ runs = <<>>

Simulate ==
    /\ result = NoResult
    /\ result' = SimulationResult(adjustedValues, baseline, baselineScore)
    /\ runs' = Append(runs, Run(Closure, result'))
    /\ UNCHANGED <<inputs, ui, probe>>

EngineNext == Simulate

EngineSpec == EngineInit /\ [][EngineNext]_vars

----------------------------------------------------------------------------
\* SwapSpec: two comparisons with the sides exchanged.  Init draws two
\* in-domain records a and b and sets the deltas that take a to b; Simulate
\* compares a with b, and SimulateSwapped runs the same callback body with b
\* as the baseline and a as the adjusted values.

SwapValues ==
    [satisfaction  : {20, 38},
     trainingHours : {350, 550},
     workHours     : {400, 430},
     overtime      : {100, 200},
     sickDays      : {50, 51, 52}]

\* The deltas for which the adjustedValues memo (lines 164-170) takes a to b:
\* a difference for the additive fields, a percentage of a.overtime for
\* overtime.
DeltaBetween(a, b) ==
    [satisfaction |-> b.satisfaction - a.satisfaction,
     training     |-> b.trainingHours - a.trainingHours,
     workHours    |-> b.workHours - a.workHours,
     overtime     |-> ((b.overtime - a.overtime) * 100) \div a.overtime,
     sickDays     |-> b.sickDays - a.sickDays]

SwapInit ==
    /\ baseline \in SwapValues
    /\ \E b \in SwapValues : deltas = DeltaBetween(baseline, b)
    /\ baselineScore = computeOverallScore(baseline)
    /\ adjustedValues = AdjustedValues(baseline, deltas)
    /\ result = NoResult
    /\ isSimulating = FALSE
    /\ activeScenario = NoScenario
    /\ autoRunRef = NoTimer
    /\ autoTimers = <<>>
    /\ simTimers = <<>>
    /\ mounted = TRUE
    /\ events = 0
    /\ probe = NoProbe
    /\ runs = <<>>

\* What a render whose baseline is the current adjusted values, and whose
\* adjusted values are the current baseline, closes over.
SwappedClosure ==
    [adjustedValues |-> baseline, baseline |-> adjustedValues,
     baselineScore |-> computeOverallScore(adjustedValues)]

SimulateSwapped ==
    /\ Len(runs) = 1
    /\ runs' = Append(runs,
                      Run(SwappedClosure,
                          SimulationResult(SwappedClosure.adjustedValues,
                                           SwappedClosure.baseline,
                                           SwappedClosure.baselineScore)))
    /\ UNCHANGED <<inputs, result, ui, probe>>

SwapNext == Simulate \/ SimulateSwapped

SwapSpec == SwapInit /\ [][SwapNext]_vars

----------------------------------------------------------------------------
\* Claims about a comparison, under EngineSpec.

\* The five weights as the specification lists them, in hundredths.
SpecWeight(factor) ==
    CASE factor = "satisfaction" -> 30
      [] factor = "training"     -> 25
      [] factor = "workHours"    -> 18
      [] factor = "overtime"     -> 15
      [] factor = "sickDays"     -> 12

RECURSIVE SpecWeightedSum(_, _)
\* The sum over the first n factors of weight[f] * computeFactorScore(f, raw
\* value of f), the raw value of training being the field trainingHours.
SpecWeightedSum(values, n) ==
    IF n = 0 THEN 0
    ELSE SpecWeightedSum(values, n - 1)
           + SpecWeight(FactorNames[n])
               * computeFactorScore(FactorNames[n],
                    IF FactorNames[n] = "training" THEN values.trainingHours
                    ELSE values[FactorNames[n]])

\* x rounded to one decimal, for x in 1/OverallScale: the number of tenths n
\* with n - 1/2 <= 10 * x < n + 1/2.
IsRound1(n, x) ==
    /\ (2 * n - 1) * OverallScale <= 20 * x
    /\ 20 * x < (2 * n + 1) * OverallScale

\* C3: computeOverallScore(values) is the sum over the five factors of
\* weight[f] * computeFactorScore(f, raw value of f), with the weights 0.30,
\* 0.25, 0.18, 0.15, 0.12, and the same function scores the baseline and the
\* adjusted values of a simulation.
C3_OverallIsWeightedSum ==
    /\ baselineScore = SpecWeightedSum(baseline, 5)
    /\ result # NoResult
          => /\ IsRound1(result.baselineScore, SpecWeightedSum(baseline, 5))
             /\ IsRound1(result.newScore, SpecWeightedSum(adjustedValues, 5))

\* A simulation whose training hours were raised and whose two scores differ.
C3_Witness ==
    /\ result # NoResult
    /\ adjustedValues.trainingHours > baseline.trainingHours
    /\ result.newScore > result.baselineScore

\* C5: a simulation whose adjusted values equal its baseline values (all five
\* deltas 0 on an in-domain baseline) has delta = 0, percentChange = 0 and
\* direction neutral in every one of the five impact entries.
C5_ZeroDeltaIdentity ==
    (result # NoResult /\ adjustedValues = baseline)
        => /\ result.delta = 0
           /\ result.percentChange = 0
           /\ Len(result.impactBreakdown) = 5
           /\ \A i \in 1..5 : result.impactBreakdown[i].direction = "neutral"

\* The component's own baseline simulated with all five deltas at 0.
C5_Witness ==
    /\ result # NoResult
    /\ baseline = InitialBaseline
    /\ deltas = ZeroDeltas
    /\ InDomain(baseline)
    /\ adjustedValues = baseline
    /\ result.delta = 0

\* C8: the category follows from the rounded newScore alone: High if
\* newScore >= 75, Medium if 50 <= newScore < 75, Low if newScore < 50, so
\* that exactly 75.0 is High and exactly 50.0 is Medium.
C8_CategoryBands ==
    result # NoResult
        => /\ (result.newScore >= 750) => (result.category = "High")
           /\ (500 <= result.newScore /\ result.newScore < 750)
                 => (result.category = "Medium")
           /\ (result.newScore < 500) => (result.category = "Low")

\* A simulation whose new score, 74.9875 unrounded, rounds to exactly 75.0
\* and is High.
C8_Witness ==
    /\ result # NoResult
    /\ computeOverallScore(adjustedValues) = 7498750
    /\ result.newScore = 750
    /\ result.category = "High"

\* C9: baselineScore and newScore are each rounded to one decimal first, and
\* delta is the rounded difference of those rounded scores, not of the
\* unrounded overall scores.
C9_DeltaFromRoundedScores ==
    result # NoResult
        => /\ IsRound1(result.baselineScore, baselineScore)
           /\ IsRound1(result.newScore, computeOverallScore(adjustedValues))
           /\ result.delta = result.newScore - result.baselineScore

\* A simulation in which the order matters: 47.8375 and 47.1625 round to 47.8
\* and 47.2, so delta is -0.6, while the unrounded difference, -0.675, would
\* round to -0.7.
C9_Witness ==
    /\ result # NoResult
    /\ baselineScore = 4783750
    /\ computeOverallScore(adjustedValues) = 4716250
    /\ result.delta = -6
    /\ IsRound1(-7, computeOverallScore(adjustedValues) - baselineScore)

\* C10: whenever the rounded baselineScore is greater than 0, percentChange
\* is delta / baselineScore * 100 rounded to one decimal, on the rounded
\* delta and the rounded baselineScore: the number of tenths p with
\* p - 1/2 <= 1000 * delta / baselineScore < p + 1/2.
C10_PercentChange ==
    (result # NoResult /\ result.baselineScore > 0)
        => /\ result.delta = result.newScore - result.baselineScore
           /\ (2 * result.percentChange - 1) * result.baselineScore
                 <= 2000 * result.delta
           /\ 2000 * result.delta
                 < (2 * result.percentChange + 1) * result.baselineScore

\* The Training Boost on the component's baseline: 68.8 to 75.1 is +6.3, which
\* is 9.2 percent of 68.8.
C10_Witness ==
    /\ result # NoResult
    /\ baseline = InitialBaseline
    /\ deltas = [ZeroDeltas EXCEPT !["training"] = 200]
    /\ result.baselineScore = 688
    /\ result.delta = 63
    /\ result.percentChange = 92

\* C11: when the rounded baselineScore is 0 the simulation still produces a
\* result, and its percentChange is 0 whatever its newScore and delta are.
C11_DivisionGuard ==
    /\ (result = NoResult /\ MathRound(baselineScore * 10, OverallScale) = 0)
          => ENABLED Simulate
    /\ (result # NoResult /\ result.baselineScore = 0)
          => /\ result.percentChange = 0
             /\ result.delta = result.newScore
             /\ result.category \in {"Low", "Medium", "High"}

\* Every factor of the baseline scores 0 (satisfaction 1, no training, 80
\* work hours, 40 hours of overtime, 20 sick days); satisfaction raised by
\* 0.5 gives newScore 3.8 and delta 3.8 against a baselineScore of 0.
C11_Witness ==
    /\ result # NoResult
    /\ baseline = [satisfaction |-> 10, trainingHours |-> 0, workHours |-> 800,
                   overtime |-> 400, sickDays |-> 200]
    /\ result.baselineScore = 0
    /\ result.newScore > 0
    /\ result.delta > 0
    /\ result.percentChange = 0

\* The factors in the order the specification fixes for impactBreakdown, and
\* the names the entries carry for them.
SpecOrder == <<"satisfaction", "training", "workHours", "overtime", "sickDays">>

SpecLabels == <<"Satisfaction", "Training", "Work Hours", "Overtime", "Sick Days">>

\* The score of factor f on a record of raw values.
SpecFactorScore(f, values) ==
    computeFactorScore(f, IF f = "training" THEN values.trainingHours ELSE values[f])

\* C12: impactBreakdown has exactly five entries, for satisfaction,
\* training, workHours, overtime and sickDays in that order, and the entry
\* of factor f has impact = (adjusted score of f - baseline score of f) *
\* weight[f] rounded to one decimal.
C12_ImpactBreakdown ==
    result # NoResult
        => /\ DOMAIN result.impactBreakdown = 1..5
           /\ \A i \in 1..5 :
                 /\ result.impactBreakdown[i].factor = SpecLabels[i]
                 /\ IsRound1(result.impactBreakdown[i].impact,
                             (SpecFactorScore(SpecOrder[i], adjustedValues)
                                - SpecFactorScore(SpecOrder[i], baseline))
                               * SpecWeight(SpecOrder[i]))

\* The component's baseline with overtime halved (10 h to 5 h, score 75 to
\* 87.5) and two sick days fewer (5 to 3, score 75 to 85): the impacts are
\* 12.5 * 0.15 = 1.875, which rounds to 1.9, and 10 * 0.12 = 1.2.
C12_Witness ==
    /\ result # NoResult
    /\ baseline = InitialBaseline
    /\ deltas = [ZeroDeltas EXCEPT !["overtime"] = -50, !["sickDays"] = -20]
    /\ [i \in 1..5 |-> result.impactBreakdown[i].impact] = <<0, 0, 0, 19, 12>>
    /\ [i \in 1..5 |-> result.impactBreakdown[i].factor] = SpecLabels

\* C13: the direction of the entry of factor f compares the two unweighted
\* scores of f with a dead zone of 0.5 point: positive when adjusted >
\* baseline + 0.5, negative when adjusted < baseline - 0.5, neutral otherwise,
\* a difference of exactly 0.5 either way included.
C13_DirectionDeadZone ==
    result # NoResult
        => \A i \in 1..5 :
              LET diff == SpecFactorScore(SpecOrder[i], adjustedValues)
                             - SpecFactorScore(SpecOrder[i], baseline)
                  direction == result.impactBreakdown[i].direction
              IN  /\ direction \in {"positive", "negative", "neutral"}
                  /\ direction = "positive" <=> 2 * diff > ScoreScale
                  /\ direction = "negative" <=> 2 * diff < 0 - ScoreScale
                  /\ direction = "neutral"
                        <=> (0 - ScoreScale <= 2 * diff /\ 2 * diff <= ScoreScale)

\* Sick days 5 to 5.1 lower the sick-days score from 75 to 74.5, exactly 0.5
\* point, and the direction stays neutral, while half a point of
\* satisfaction more (score 70 to 82.5) is positive and 3 work hours more
\* (43 to 46, score 92.5 to 85) are negative.
C13_Witness ==
    /\ result # NoResult
    /\ baseline = InitialBaseline
    /\ deltas = [ZeroDeltas EXCEPT !["satisfaction"] = 5, !["workHours"] = 30,
                                   !["sickDays"] = 1]
    /\ SpecFactorScore("sickDays", baseline)
          - SpecFactorScore("sickDays", adjustedValues) = ScoreScale \div 2
    /\ [i \in 1..5 |-> result.impactBreakdown[i].direction]
          = <<"positive", "neutral", "negative", "neutral", "neutral">>

\* The five scores the specification's first concrete scenario lists for
\* the component's baseline.
SpecScenarioScores ==
    /\ computeFactorScore("satisfaction", baseline.satisfaction) = 70000
    /\ computeFactorScore("training", baseline.trainingHours) = 43750
    /\ computeFactorScore("workHours", baseline.workHours) = 92500
    /\ computeFactorScore("overtime", baseline.overtime) = 75000
    /\ computeFactorScore("sickDays", baseline.sickDays) = 75000

\* C16 as the specification states it: for the baseline {3.8, 35, 43, 10, 5}
\* the overall score is 70.0875 and the rounded baselineScore 70.1.
C16_AsStated ==
    baseline = InitialBaseline
        => /\ SpecScenarioScores
           /\ baselineScore = 7008750
           /\ result # NoResult => result.baselineScore = 701

\* C16: for the baseline {satisfaction 3.8, trainingHours 35, workHours 43,
\* overtime 10, sickDays 5} the factor scores are 70.0, 43.75, 92.5, 75.0 and
\* 75.0, the overall score is 68.8375 (21 + 10.9375 + 16.65 + 11.25 + 9), and
\* the rounded baselineScore is 68.8.
C16_ConcreteBaseline ==
    baseline = InitialBaseline
        => /\ SpecScenarioScores
           /\ baselineScore = 6883750
           /\ result # NoResult => result.baselineScore = 688

C16_Witness ==
    /\ baseline = InitialBaseline
    /\ deltas = ZeroDeltas
    /\ result # NoResult
    /\ baselineScore = 6883750
    /\ result.baselineScore = 688

\* The deltas a preset sets: its adjustment where it has one, 0 elsewhere.
SpecPresetDeltas(scenario) ==
    [f \in Factors |->
        IF f \in DOMAIN scenario.adjustments THEN scenario.adjustments[f] ELSE 0]

\* C17 as the specification states it: the Training Boost on the baseline
\* {3.8, 35, 43, 10, 5} gives newScore 74.3, delta 4.2 and category Medium.
C17_AsStated ==
    (baseline = InitialBaseline /\ deltas = SpecPresetDeltas(presetScenarios[1]))
        => /\ adjustedValues.trainingHours = 550
           /\ computeFactorScore("training", adjustedValues.trainingHours) = 68750
           /\ result # NoResult
                 => /\ result.newScore = 743
                    /\ result.delta = 42
                    /\ result.category = "Medium"

\* C17: the Training Boost preset (training +20) on the baseline {3.8, 35,
\* 43, 10, 5} gives adjusted trainingHours 55 and training score 68.75, and
\* the simulation of these adjusted values against that baseline has
\* newScore 75.1 (75.0875 rounded), delta 6.3 and category High.
C17_TrainingBoost ==
    (baseline = InitialBaseline /\ deltas = SpecPresetDeltas(presetScenarios[1]))
        => /\ presetScenarios[1].name = "Training Boost"
           /\ deltas.training = 200
           /\ adjustedValues.trainingHours = 550
           /\ computeFactorScore("training", adjustedValues.trainingHours) = 68750
           /\ result # NoResult
                 => /\ computeOverallScore(adjustedValues) = 7508750
                    /\ result.newScore = 751
                    /\ result.delta = 63
                    /\ result.category = "High"

C17_Witness ==
    /\ baseline = InitialBaseline
    /\ deltas = SpecPresetDeltas(presetScenarios[1])
    /\ adjustedValues.trainingHours = 550
    /\ result # NoResult
    /\ result.newScore = 751
    /\ result.delta = 63
    /\ result.category = "High"

C29_DirectionAgreesWithImpact ==
    result # NoResult
        => \A i \in 1..5 :
              /\ result.impactBreakdown[i].direction = "positive"
                    => result.impactBreakdown[i].impact > 0
              /\ result.impactBreakdown[i].direction = "negative"
                    => result.impactBreakdown[i].impact < 0

\* Half a point of satisfaction more is positive with an impact above 0,
\* overtime half as high again is negative with impact -1.9, and a tenth of
\* a sick day more is neutral (the score falls by exactly 0.5) with impact
\* -0.1.
C29_Witness ==
    /\ result # NoResult
    /\ baseline = InitialBaseline
    /\ deltas = [ZeroDeltas EXCEPT !["satisfaction"] = 5, !["overtime"] = 50,
                                   !["sickDays"] = 1]
    /\ result.impactBreakdown[1].direction = "positive"
    /\ result.impactBreakdown[1].impact > 0
    /\ result.impactBreakdown[4].direction = "negative"
    /\ result.impactBreakdown[4].impact = -19
    /\ result.impactBreakdown[5].direction = "neutral"
    /\ result.impactBreakdown[5].impact = -1

----------------------------------------------------------------------------
\* Claims about exchanged comparisons, under SwapSpec.

\* C30: for in-domain a and b, compare(b, a) has the delta of compare(a, b)
\* negated and its newScore as baselineScore, and each factor's direction is
\* positive in one of the two exactly when it is negative in the other.
C30_SwapAntisymmetry ==
    Len(runs) = 2
        => LET ab == runs[1].result
               ba == runs[2].result
           IN  /\ InDomain(runs[1].baseline) /\ InDomain(runs[1].adjustedValues)
               /\ runs[2].baseline = runs[1].adjustedValues
               /\ runs[2].adjustedValues = runs[1].baseline
               /\ ba.delta = 0 - ab.delta
               /\ ba.baselineScore = ab.newScore
               /\ \A i \in 1..5 :
                     /\ ab.impactBreakdown[i].direction = "positive"
                           <=> ba.impactBreakdown[i].direction = "negative"
                     /\ ab.impactBreakdown[i].direction = "negative"
                           <=> ba.impactBreakdown[i].direction = "positive"

\* From the component's baseline with 55 training hours, 40 work hours and
\* 5.2 sick days as the other side: one way training and workHours are
\* positive and sickDays negative (its score falls by a whole point), the
\* other way the reverse, and the deltas are opposite and not 0.
C30_Witness ==
    /\ Len(runs) = 2
    /\ runs[1].baseline = InitialBaseline
    /\ runs[1].adjustedValues
          = [InitialBaseline EXCEPT !.trainingHours = 550, !.workHours = 400,
                                    !.sickDays = 52]
    /\ [i \in 1..5 |-> runs[1].result.impactBreakdown[i].direction]
          = <<"neutral", "positive", "positive", "neutral", "negative">>
    /\ [i \in 1..5 |-> runs[2].result.impactBreakdown[i].direction]
          = <<"neutral", "negative", "negative", "neutral", "positive">>
    /\ runs[1].result.delta > 0
    /\ runs[2].result.delta = 0 - runs[1].result.delta
    /\ runs[2].result.baselineScore = runs[1].result.newScore

----------------------------------------------------------------------------
\* Claims about the component, under Spec.

\* C18: in every state the component reaches, the weights in use are
\* satisfaction 0.30, training 0.25, workHours 0.18, overtime 0.15 and
\* sickDays 0.12: each lies in (0,1], the five sum to exactly 1, and the
\* latest simulation weighed its scores with them (the log only grows, so
\* every simulation is the latest in some state).
C18_WeightsFixed ==
    /\ DOMAIN WEIGHTS = {SpecOrder[i] : i \in 1..5}
    /\ \A i \in 1..5 :
          /\ WEIGHTS[SpecOrder[i]] = SpecWeight(SpecOrder[i])
          /\ 0 < WEIGHTS[SpecOrder[i]]
          /\ WEIGHTS[SpecOrder[i]] <= WeightScale
    /\ WEIGHTS.satisfaction + WEIGHTS.training + WEIGHTS.workHours
          + WEIGHTS.overtime + WEIGHTS.sickDays = WeightScale
    /\ runs # <<>>
          => runs[Len(runs)].result.newScore
                = MathRound(SpecWeightedSum(runs[Len(runs)].adjustedValues, 5) * 10,
                            OverallScale)

\* After a slider move, a simulation, a preset and its stale auto-run, the
\* last simulation still weighs the five scores with 0.30, 0.25, 0.18, 0.15
\* and 0.12.
C18_Witness ==
    /\ Len(runs) = 2
    /\ activeScenario # NoScenario
    /\ runs[1].adjustedValues # runs[1].baseline
    /\ result = runs[2].result
    /\ result.newScore
          = MathRound(SpecWeightedSum(runs[2].adjustedValues, 5) * 10, OverallScale)
    /\ WEIGHTS.satisfaction + WEIGHTS.training + WEIGHTS.workHours
          + WEIGHTS.overtime + WEIGHTS.sickDays = WeightScale

C24_PresetReplacesDeltas ==
    [][\A i \in 1..5 :
          ApplyPreset(presetScenarios[i])
              => /\ \A f \in {"satisfaction", "training", "workHours", "overtime",
                              "sickDays"} :
                       deltas'[f] = IF f \in DOMAIN presetScenarios[i].adjustments
                                    THEN presetScenarios[i].adjustments[f]
                                    ELSE 0
                 /\ activeScenario' = presetScenarios[i].name
                 /\ baseline' = baseline]_vars

\* A simulation was run with 50 training hours added, and Work-Life Balance
\* was applied afterwards: the training delta is back at 0 and overtime is
\* at -50 percent.
C24_Witness ==
    /\ Len(runs) = 1
    /\ runs[1].adjustedValues.trainingHours = 850
    /\ activeScenario = "Work-Life Balance"
    /\ deltas = [ZeroDeltas EXCEPT !["overtime"] = -50]
    /\ adjustedValues = [InitialBaseline EXCEPT !.overtime = 50]
    /\ baseline = InitialBaseline

\* C28: while the component is mounted, isSimulating is true in every state
\* in which a 400 ms simulation timer is pending and false in every state in
\* which none is, overlapping simulations included.
C28_SimulatingIffTimerPending ==
    mounted => (isSimulating <=> simTimers # <<>>)

\* C25: at most one auto-run timer is pending at any time, and it is the
\* one the last applyPreset made: a click cancels the timer of the click
\* before it, so a burst of clicks starts one auto-run simulation, the last
\* click's.
C25_OneAutoRunPending ==
    /\ Len(autoTimers) <= 1
    /\ \A i \in 1..Len(autoTimers) : autoTimers[i].current
    /\ autoTimers # <<>> => autoRunRef = SomeTimer

\* Training Boost, then Work-Life Balance before the first auto-run fired
\* (nothing has been simulated yet): one simulation is in flight, started by
\* the second click's timer, whose render held the Training Boost's values.
C25_Witness ==
    /\ activeScenario = "Work-Life Balance"
    /\ events = 2
    /\ runs = <<>>
    /\ autoTimers = <<>>
    /\ Len(simTimers) = 1
    /\ simTimers[1].closure.adjustedValues
          = [InitialBaseline EXCEPT !.trainingHours = 550]

\* C26: once the component is unmounted no auto-run timer is pending any
\* more, so none can fire, and since the button is gone with the component
\* no simulation can be started in any unmounted state.
C26_NoAutoRunAfterUnmount ==
    ~mounted =>
        /\ autoTimers = <<>>
        /\ ~ENABLED AutoRunFires
        /\ ~ENABLED RunSimulationClick

\* A preset was clicked and the component unmounted within the 150 ms: the
\* ref still holds the timer id, the timer is gone and nothing ever ran.
C26_Witness ==
    /\ ~mounted
    /\ activeScenario = "Training Boost"
    /\ autoRunRef = SomeTimer
    /\ autoTimers = <<>>
    /\ simTimers = <<>>
    /\ runs = <<>>
    /\ events = 1

\* C27: resetAll leaves every delta at 0, activeScenario null and result
\* null, and a simulation or auto-run timer that was started before the
\* reset does not set a result afterwards.
C27_ResetDiscardsPending ==
    [][/\ ResetAll =>
            /\ deltas' = ZeroDeltas
            /\ activeScenario' = NoScenario
            /\ result' = NoResult
       /\ (SimulationTimerFires /\ Head(simTimers).beforeReset) =>
            result' = result]_vars

\* C22: when the simulation that a preset's auto-run started shows its
\* result, and the user has done nothing since clicking the preset, the
\* displayed newScore is the overall score, rounded to one decimal, of the
\* baseline with that preset's deltas applied.
C22_AutoRunUsesPreset ==
    [][\A i \in 1..5 :
          ( /\ SimulationTimerFires
            /\ mounted
            /\ Head(simTimers).auto
            /\ Head(simTimers).madeAt = events
            /\ activeScenario = presetScenarios[i].name )
              => result'.newScore
                    = MathRound(computeOverallScore(
                                    AdjustedValues(baseline,
                                                   SpecPresetDeltas(presetScenarios[i]))) * 10,
                                OverallScale)]_vars

\* C21: a simulation that was started while an earlier one, made from other
\* inputs, still had its result to show: when it is the last timer to fire
\* and the user has done nothing since starting it, the result it displays
\* is the one computed from the inputs in effect, whatever the earlier
\* simulation displayed before.
C21_LatestInputsSupersede ==
    [][( /\ SimulationTimerFires
         /\ mounted
         /\ Head(simTimers).overlapped
         /\ Head(simTimers).madeAt = events
         /\ Len(simTimers) = 1
         /\ autoTimers = <<>> )
           => result' = SimulationResult(adjustedValues, baseline, baselineScore)]_vars

----------------------------------------------------------------------------
\* Claims about computeFactorScore, under NormSpec.

\* C1: for each of the five factor names and every raw value, however far
\* below or above the factor's domain, computeFactorScore returns a score s
\* with 0 <= s <= 100.
C1_ScoreInRange ==
    (probe.called /\ probe.factor \in Factors)
        => (0 <= probe.score /\ probe.score <= 100 * ScoreScale)

\* An overtime of 120 hours, three times the top of its domain, scored 0.
C1_Witness ==
    /\ probe.called
    /\ probe.factor = "overtime"
    /\ probe.value = 120 * RawScale
    /\ probe.score = 0

\* The transforms of the specification's table, before the clamp, in
\* 1/ScoreScale of a point for a raw value in tenths.
SpecTransform(factor, v) ==
    CASE factor = "satisfaction" -> (25 * ScoreScale * (v - RawScale)) \div RawScale
      [] factor = "training"     -> (125 * ScoreScale * v) \div (100 * RawScale)
      [] factor = "workHours"    ->
            100 * ScoreScale
              - (25 * ScoreScale * (IF v >= 40 * RawScale THEN v - 40 * RawScale
                                                         ELSE 40 * RawScale - v))
                    \div (10 * RawScale)
      [] factor = "overtime"     -> 100 * ScoreScale - (25 * ScoreScale * v) \div (10 * RawScale)
      [] factor = "sickDays"     -> 100 * ScoreScale - (5 * ScoreScale * v) \div RawScale

\* C4: each factor's score is the clamp to [0,100] of its transform
\* (satisfaction ((v-1)/4)*100, training (v/80)*100, workHours
\* 100 - |v-40|*2.5, overtime 100 - v*2.5, sickDays 100 - v*5), for every raw
\* value probed.
C4_ScoreIsClampedTransform ==
    (probe.called /\ probe.factor \in Factors)
        => probe.score =
             (IF SpecTransform(probe.factor, probe.value) < 0 THEN 0
              ELSE IF SpecTransform(probe.factor, probe.value) > 100 * ScoreScale
                   THEN 100 * ScoreScale
                   ELSE SpecTransform(probe.factor, probe.value))

\* 90 training hours: the transform gives 112.5, the score is 100.
C4_Witness ==
    /\ probe.called
    /\ probe.factor = "training"
    /\ probe.value = 90 * RawScale
    /\ SpecTransform("training", probe.value) = 112500
    /\ probe.score = 100 * ScoreScale

\* C7: the workHours score is 100 at exactly v = 40, strictly less than 100
\* for every other v, and equal for 40 + d and 40 - d.
C7_WorkHoursPeakAt40 ==
    (probe.called /\ probe.factor = "workHours")
        => /\ (probe.value = 40 * RawScale) => (probe.score = 100 * ScoreScale)
           /\ (probe.value # 40 * RawScale) => (probe.score < 100 * ScoreScale)
           /\ probe.score = computeFactorScore("workHours", 80 * RawScale - probe.value)

\* The call at exactly 40 hours, which returned 100.
C7_Witness ==
    /\ probe.called
    /\ probe.factor = "workHours"
    /\ probe.value = 40 * RawScale
    /\ probe.score = 100 * ScoreScale

\* C19: computeFactorScore called with a name that is none of satisfaction,
\* training, workHours, overtime, sickDays returns 50 whatever the raw value,
\* and the call completes.
C19_UnknownFactorIs50 ==
    /\ (probe.factor \notin {"satisfaction", "training", "workHours", "overtime",
                             "sickDays", NoProbe.factor}
          /\ ~probe.called)
          => ENABLED Normalize
    /\ (probe.called
          /\ probe.factor \notin {"satisfaction", "training", "workHours", "overtime",
                                  "sickDays"})
          => probe.score = 50 * ScoreScale

\* The field name trainingHours is not the factor name training: at 100
\* hours, where training scores 100, it scores 50.
C19_Witness ==
    /\ probe.called
    /\ probe.factor = "trainingHours"
    /\ probe.value = 1000
    /\ probe.score = 50000
    /\ computeFactorScore("training", probe.value) = 100000

====
